---- MODULE Spec2Model ----
(***************************************************************************)
(* Model of DynamicProgramming/GEModel.py: the EGM household solver and    *)
(* the distribution simulator of the buffer-stock general equilibrium      *)
(* model.                                                                  *)
(*                                                                         *)
(* Numbers.  The program computes in binary floating point.  The model     *)
(* computes in binary fixed point: a real x is the integer x*Scale and     *)
(* every product and quotient is rounded to the nearest multiple of        *)
(* 1/Scale (FMul, FDiv).  Sums, differences and comparisons are exact.     *)
(* Arrays keep the source's zero-based indices: At(x, k) is x[k].          *)
(***************************************************************************)
EXTENDS Integers, Sequences, FiniteSets, TLC

VARIABLES
    sol,    \* sol.a, sol.m, sol.c, sol.Va: the stationary solution arrays
    tp,     \* sol.tp_a, sol.tp_m, sol.tp_c, sol.tp_Va: one array per period
    sim,    \* sim.i, sim.w, sim.D and sim.tp_D
    pc,     \* the gateway that is running, or "idle"
    loc,    \* the local variables of the running gateway
    gh,     \* history: the calls made, how the last one ended, what it saw
    bsv,    \* the call of binary_search under SpecBS
    smv,    \* the call of simulate under SpecSim
    tiv     \* the call of time_iteration under SpecPar

vars == << sol, tp, sim, pc, loc, gh, bsv, smv, tiv >>

\* the value of a harness variable under the specifications that do not use it
BsIdle == [pc |-> "none"]

SmIdle == [pc |-> "none"]

TiIdle == [pc |-> "none"]

-----------------------------------------------------------------------------
(* Fixed-point arithmetic *)

Scale == 2 ^ 8

One == Scale

FMul(x, y) == (x * y + Scale \div 2) \div Scale

FDiv(x, y) ==
    IF y > 0 THEN (x * Scale + y \div 2) \div y
             ELSE ((0 - x) * Scale + (0 - y) \div 2) \div (0 - y)

Abs(x) == IF x < 0 THEN 0 - x ELSE x

At(x, k) == x[k + 1]

-----------------------------------------------------------------------------
(* binary_search, lines 307-328 *)

RECURSIVE BsLoopStrict(_, _, _, _, _)
BsLoopStrict(imin, Nx, half, x, xi) ==
    IF half = 0 THEN imin
    ELSE LET imid == imin + half
             imin2 == IF At(x, imid) < xi THEN imid ELSE imin
             Nx2 == Nx - half
         IN  BsLoopStrict(imin2, Nx2, Nx2 \div 2, x, xi)

\* the while loop of lines 320-326, entered with half = Nx//2
RECURSIVE BsLoop(_, _, _, _, _)
BsLoop(imin, Nx, half, x, xi) ==
    IF half = 0 THEN imin
    ELSE LET imid == imin + half
             imin2 == IF At(x, imid) <= xi THEN imid ELSE imin
             Nx2 == Nx - half
         IN  BsLoop(imin2, Nx2, Nx2 \div 2, x, xi)

\* binary_search with the comparison of line 323 made strict
binary_search_strict(imin, x, xi) ==
    LET Nx == Len(x)
    IN  IF xi <= At(x, 0) THEN 0
        ELSE IF xi >= At(x, Nx - 2) THEN Nx - 2
        ELSE BsLoopStrict(imin, Nx, Nx \div 2, x, xi)

binary_search(imin, x, xi) ==
    LET Nx == Len(x)
    IN  IF xi <= At(x, 0) THEN 0
        ELSE IF xi >= At(x, Nx - 2) THEN Nx - 2
        ELSE BsLoop(imin, Nx, Nx \div 2, x, xi)

-----------------------------------------------------------------------------
(* Grids, create_grids lines 107-113.  equilogspace and markov_rouwenhorst *)
(* are library functions; the model fixes one small instance of what they  *)
(* return: an increasing asset grid that starts at 0, income levels, a     *)
(* row-stochastic transition matrix and its ergodic distribution.          *)

a_grid == << 0, 64, 256 >>

e_grid == << 128, 384 >>

e_trans == << << 192, 64 >>, << 64, 192 >> >>

e_ergodic == << 128, 128 >>

Ne == Len(e_grid)

Na == Len(a_grid)

ERange == 0 .. (Ne - 1)

ARange == 0 .. (Na - 1)

\* np.zeros(shape) for the (Ne, Na) arrays of allocate, lines 83-100
Zeros == [e \in 1 .. Ne |-> [a \in 1 .. Na |-> 0]]

At2(A, e, a) == A[e + 1][a + 1]

\* np.sum over a whole (Ne, Na) array
RECURSIVE SumSeq(_)
SumSeq(s) == IF s = << >> THEN 0 ELSE Head(s) + SumSeq(Tail(s))

SumAll(A) == SumSeq([e \in 1 .. Len(A) |-> SumSeq(A[e])])

\* np.max(np.abs(A - B)), lines 210 and 388
RECURSIVE MaxSeq(_)
MaxSeq(s) ==
    IF Len(s) = 1 THEN Head(s)
    ELSE LET rest == MaxSeq(Tail(s))
         IN  IF Head(s) >= rest THEN Head(s) ELSE rest

MaxAbsDiff(A, B) ==
    MaxSeq([e \in 1 .. Len(A) |->
              MaxSeq([a \in 1 .. Len(A[e]) |-> Abs(A[e][a] - B[e][a])])])

\* par.e_trans.T.copy(), lines 380 and 402
Transpose(P) == [i \in 1 .. Len(P[1]) |-> [j \in 1 .. Len(P) |-> P[j][i]]]

\* the matrix product P @ A of lines 290 and 368
RECURSIVE DotFrom(_, _, _, _)
DotFrom(prow, A, a, k) ==
    IF k > Len(prow) THEN 0
    ELSE FMul(prow[k], A[k][a]) + DotFrom(prow, A, a, k + 1)

MatMul(P, A) ==
    [e \in 1 .. Len(P) |-> [a \in 1 .. Len(A[1]) |-> DotFrom(P[e], A, a, 1)]]

-----------------------------------------------------------------------------
(* Parameters, setup lines 31-70.  They are configuration; the model fixes *)
(* one instance.  sigma is the baseline 1.0, so that x**(-1/sigma) and     *)
(* c**(-sigma) are reciprocals; alpha is 1/2, so that the exponent         *)
(* alpha/(alpha-1) of implied_w is -1.                                     *)

beta == 128

Z == 256

alpha == 128

delta == 64

solve_tol == 32

simulate_tol == 4

max_iter_solve == 2

max_iter_simulate == 2

tp_T == 2

\* the interest rates a caller passes
RSet == { 0, 32 }

TRange == 0 .. (tp_T - 1)

\* the interest-rate paths a caller passes: a rate in the first period and
\* one rate in all later periods
RPaths == { [t \in 1 .. tp_T |-> IF t = 1 THEN r0 ELSE r1] : r0 \in RSet, r1 \in RSet }

\* x ** (-1/par.sigma) of line 296 and c ** (-par.sigma) of line 305
Reciprocal(x) == FDiv(One, x)

\* implied_w, lines 127-133
implied_w(r) ==
    FMul(FMul(Z, One - alpha), Reciprocal(FDiv(r + delta, FMul(Z, alpha))))

\* (1+r)*par.a_grid[np.newaxis,:] + w*par.e_grid[:,np.newaxis], lines 197, 243
CashOnHand(r, w) ==
    [e \in 1 .. Ne |-> [a \in 1 .. Na |-> FMul(One + r, a_grid[a]) + FMul(w, e_grid[e])]]

\* (1+r)*(0.1*sol.m)**(-par.sigma), line 198
Tenth == FDiv(One, 10 * One)

InitialVa(r, m) ==
    [e \in 1 .. Ne |-> [a \in 1 .. Na |-> FMul(One + r, Reciprocal(FMul(Tenth, m[e][a])))]]

-----------------------------------------------------------------------------
(* time_iteration, lines 285-305 *)

\* linear_interp.interp_1d of the consav library, called at line 300: the
\* bracket is found by the library's clamped binary search (the same
\* algorithm as binary_search above) and the value is linear on that
\* bracket, also for a query beyond either end of the grid
interp_1d(grid, value, xi) ==
    LET j == binary_search(0, grid, xi)
        nom_left == At(grid, j + 1) - xi
        nom_right == xi - At(grid, j)
        denom == At(grid, j + 1) - At(grid, j)
    IN  FDiv(FMul(nom_left, At(value, j)) + FMul(nom_right, At(value, j + 1)), denom)

\* (par.beta*par.e_trans)@Va_p, line 290
MargUPlus(Va_p) ==
    MatMul([e \in 1 .. Ne |-> [k \in 1 .. Ne |-> FMul(beta, e_trans[e][k])]], Va_p)

\* lines 296-300: the endogenous grid and the interpolation, one income state
InterpRow(mu_row, m_row) ==
    LET c_endo == [a \in 1 .. Na |-> Reciprocal(mu_row[a])]
        m_endo == [a \in 1 .. Na |-> c_endo[a] + a_grid[a]]
    IN  [j \in 1 .. Na |-> interp_1d(m_endo, a_grid, m_row[j])]

\* line 301: a[i_e,0] = np.fmax(a[i_e,0],0)
ClampRow(a_row) == [a_row EXCEPT ![1] = IF @ >= 0 THEN @ ELSE 0]

\* line 302
ConsRow(m_row, a_row) == [j \in 1 .. Na |-> m_row[j] - a_row[j]]

\* line 305
EnvelopeRow(r, c_row) == [j \in 1 .. Na |-> FMul(One + r, Reciprocal(c_row[j]))]

\* the whole step; w is a parameter of the source that its body never reads
time_iteration(r, w, Va_p, m) ==
    LET marg_u_plus == MargUPlus(Va_p)
        a == [e \in 1 .. Ne |-> ClampRow(InterpRow(marg_u_plus[e], m[e]))]
        c == [e \in 1 .. Ne |-> ConsRow(m[e], a[e])]
        Va == [e \in 1 .. Ne |-> EnvelopeRow(r, c[e])]
    IN  [a |-> a, c |-> c, Va |-> Va]

Positive(A) == \A e \in 1 .. Len(A) : \A a \in 1 .. Len(A[e]) : A[e][a] > 0

-----------------------------------------------------------------------------
(* find_i_and_w, lines 330-347 *)

\* one cell, lines 341-347: the index and the weight
CellI(a_) == binary_search(0, a_grid, a_)

CellW(a_) ==
    LET i_ == CellI(a_)
    IN  FDiv(At(a_grid, i_ + 1) - a_, At(a_grid, i_ + 1) - At(a_grid, i_))

FindI(a) == [e \in 1 .. Ne |-> [j \in 1 .. Na |-> CellI(a[e][j])]]

FindW(a) == [e \in 1 .. Ne |-> [j \in 1 .. Na |-> CellW(a[e][j])]]

-----------------------------------------------------------------------------
(* simulate, lines 349-370 *)

\* a scatter that assigns where lines 364-365 accumulate
ScatterSet(row, idx, v) == [row EXCEPT ![idx + 1] = v]

\* lines 364-365: Dnew[i_e, idx] += v
ScatterAdd(row, idx, v) == [row EXCEPT ![idx + 1] = @ + v]

\* the i_a loop of lines 356-365 for one income state, from i_a on
RECURSIVE ScatterRowFrom(_, _, _, _, _)
ScatterRowFrom(Drow, irow, wrow, i_a, acc) ==
    IF i_a >= Na THEN acc
    ELSE LET D_ == At(Drow, i_a)
             w == At(wrow, i_a)
             i == At(irow, i_a)
             acc1 == ScatterAdd(acc, i, FMul(D_, w))
             acc2 == ScatterAdd(acc1, i + 1, FMul(D_, One - w))
         IN  ScatterRowFrom(Drow, irow, wrow, i_a + 1, acc2)

simulate(i, w, e_trans_T, D) ==
    LET Dnew == [e \in 1 .. Ne |->
                   ScatterRowFrom(D[e], i[e], w[e], 0, [a \in 1 .. Na |-> 0])]
    IN  MatMul(e_trans_T, Dnew)

-----------------------------------------------------------------------------
(* The model object: allocate, and the four gateways a driver calls.       *)
(* One action is one call's entry or one iteration of its loop.            *)

MaxCalls == 4

\* allocate, lines 72-105
Allocate ==
    /\ sol = [a |-> Zeros, m |-> Zeros, c |-> Zeros, Va |-> Zeros]
    /\ tp = [a |-> [t \in 1 .. tp_T |-> Zeros], m |-> [t \in 1 .. tp_T |-> Zeros],
             c |-> [t \in 1 .. tp_T |-> Zeros], Va |-> [t \in 1 .. tp_T |-> Zeros]]
    /\ sim = [i |-> Zeros, w |-> Zeros, D |-> Zeros,
              tp_D |-> [t \in 1 .. tp_T |-> Zeros]]

NoLocals ==
    [r |-> 0, w |-> 0, it |-> 0, diff |-> 0, a_old |-> Zeros, D |-> Zeros,
     t |-> 0, tp_r |-> [t \in 1 .. tp_T |-> 0]]

MainIdle ==
    /\ Allocate
    /\ pc = "none"
    /\ loc = NoLocals
    /\ gh = [calls |-> 0, last |-> "none", status |-> "none", steps |-> 0,
             order |-> << >>, pre_sol |-> sol, pre_D |-> Zeros]

Init ==
    /\ Allocate
    /\ pc = "idle"
    /\ loc = NoLocals
    /\ gh = [calls |-> 0, last |-> "none", status |-> "none", steps |-> 0,
             order |-> << >>, pre_sol |-> sol, pre_D |-> Zeros]
    /\ bsv = BsIdle
    /\ smv = SmIdle
    /\ tiv = TiIdle

\* what every gateway's entry records
Enter(name) ==
    gh' = [calls |-> gh.calls + 1, last |-> name, status |-> "running", steps |-> 0,
           order |-> << >>, pre_sol |-> sol, pre_D |-> sim.D]

\* a convergence test that always passes
ConvergedAlways(diff, tol) == TRUE

\* lines 210 and 388: np.max(np.abs(new - old)) < tolerance
Converged(diff, tol) == diff < tol

\* a cap that is never taken
CapNever(it, cap) == FALSE

\* lines 214 and 393: it > max_iter
CapExceeded(it, cap) == it > cap

(* solve_household_ss, lines 183-217 *)

\* lines 186-200, with Va None or the caller's warm start sol.Va
SolveSsBegin(r, warm) ==
    /\ pc = "idle"
    /\ gh.calls < MaxCalls
    /\ warm => Positive(sol.Va)
    /\ LET w == implied_w(r)
           m == CashOnHand(r, w)
       IN  /\ sol' = [sol EXCEPT !.m = m,
                                 !.Va = IF warm THEN sol.Va ELSE InitialVa(r, m)]
           /\ loc' = [NoLocals EXCEPT !.r = r, !.w = w, !.it = 0]
    /\ pc' = "solve_ss"
    /\ Enter("solve_ss")
    /\ UNCHANGED << tp, sim, bsv, smv, tiv >>

\* one pass of the while loop, lines 201-214; Va_p and Va are both sol.Va
SolveSsIter ==
    /\ pc = "solve_ss"
    /\ LET a_old == sol.a
           res == time_iteration(loc.r, loc.w, sol.Va, sol.m)
           diff == MaxAbsDiff(res.a, a_old)
       IN  /\ sol' = [sol EXCEPT !.a = res.a, !.c = res.c, !.Va = res.Va]
           /\ IF Converged(diff, solve_tol)
              THEN /\ loc' = [loc EXCEPT !.a_old = a_old, !.diff = diff]
                   /\ pc' = "idle"
                   /\ gh' = [gh EXCEPT !.steps = @ + 1, !.status = "returned"]
              ELSE /\ loc' = [loc EXCEPT !.a_old = a_old, !.diff = diff, !.it = @ + 1]
                   /\ IF CapExceeded(loc.it + 1, max_iter_solve)
                      THEN /\ pc' = "idle"
                           /\ gh' = [gh EXCEPT !.steps = @ + 1, !.status = "raised"]
                      ELSE /\ pc' = "solve_ss"
                           /\ gh' = [gh EXCEPT !.steps = @ + 1]
    /\ UNCHANGED << tp, sim, bsv, smv, tiv >>

(* solve_household_tp, lines 219-249 *)

\* lines 222-230: the loop starts at t = tp_T-1
SolveTpBegin(tp_r) ==
    /\ pc = "idle"
    /\ gh.calls < MaxCalls
    /\ Positive(sol.Va)
    /\ loc' = [NoLocals EXCEPT !.tp_r = tp_r, !.t = tp_T - 1]
    /\ pc' = "solve_tp"
    /\ Enter("solve_tp")
    /\ UNCHANGED << sol, tp, sim, bsv, smv, tiv >>

\* every period continues from the stationary value
TpContinuationStationary(t) == sol.Va

\* lines 237-240
TpContinuation(t) == IF t = tp_T - 1 THEN sol.Va ELSE At(tp.Va, t + 1)

\* reversed(range(par.tp_T)), line 230: the period after t, and the last one
TpAfter(t) == t - 1

TpLast == 0

\* one pass of the for loop, lines 230-246
SolveTpStep ==
    /\ pc = "solve_tp"
    /\ LET t == loc.t
           r == At(loc.tp_r, t)
           w == implied_w(r)
           m == CashOnHand(r, w)
           res == time_iteration(r, w, TpContinuation(t), m)
       IN  /\ tp' = [tp EXCEPT !.m[t + 1] = m, !.a[t + 1] = res.a,
                               !.c[t + 1] = res.c, !.Va[t + 1] = res.Va]
           /\ IF t = TpLast
              THEN /\ pc' = "idle"
                   /\ loc' = [loc EXCEPT !.r = r, !.w = w]
                   /\ gh' = [gh EXCEPT !.steps = @ + 1, !.order = Append(@, t),
                                       !.status = "returned"]
              ELSE /\ pc' = "solve_tp"
                   /\ loc' = [loc EXCEPT !.r = r, !.w = w, !.t = TpAfter(t)]
                   /\ gh' = [gh EXCEPT !.steps = @ + 1, !.order = Append(@, t)]
    /\ UNCHANGED << sol, sim, bsv, smv, tiv >>

(* simulate_household_ss and simulate_ss, lines 251-266 and 372-397 *)

\* line 260: the ergodic income distribution spread evenly over the assets
DefaultD == [e \in 1 .. Ne |-> [a \in 1 .. Na |-> FDiv(e_ergodic[e], Na * One)]]

\* lines 254-263 and 376-381, with D None or the caller's sim.D
SimSsBegin(given) ==
    /\ pc = "idle"
    /\ gh.calls < MaxCalls
    /\ given => SumAll(sim.D) > 0
    /\ sim' = [sim EXCEPT !.i = FindI(sol.a), !.w = FindW(sol.a)]
    /\ loc' = [NoLocals EXCEPT !.D = IF given THEN sim.D ELSE DefaultD, !.it = 0]
    /\ pc' = "simulate_ss"
    /\ Enter("simulate_ss")
    /\ UNCHANGED << sol, tp, bsv, smv, tiv >>

\* one pass of the while loop, lines 382-393, and lines 396-397 on the break
SimSsIter ==
    /\ pc = "simulate_ss"
    /\ LET Dnew == simulate(sim.i, sim.w, Transpose(e_trans), loc.D)
           diff == MaxAbsDiff(Dnew, loc.D)
       IN  IF Converged(diff, simulate_tol)
           THEN /\ sim' = [sim EXCEPT !.D = loc.D]
                /\ loc' = [loc EXCEPT !.diff = diff]
                /\ pc' = "idle"
                /\ gh' = [gh EXCEPT !.steps = @ + 1, !.status = "returned"]
           ELSE /\ sim' = sim
                /\ loc' = [loc EXCEPT !.D = Dnew, !.diff = diff, !.it = @ + 1]
                /\ IF CapExceeded(loc.it + 1, max_iter_simulate)
                   THEN /\ pc' = "idle"
                        /\ gh' = [gh EXCEPT !.steps = @ + 1, !.status = "raised"]
                   ELSE /\ pc' = "simulate_ss"
                        /\ gh' = [gh EXCEPT !.steps = @ + 1]
    /\ UNCHANGED << sol, tp, bsv, smv, tiv >>

(* simulate_household_tp and simulate_path, lines 268-279 and 399-414 *)

\* lines 271-276 and 402-403
SimPathBegin ==
    /\ pc = "idle"
    /\ gh.calls < MaxCalls
    /\ loc' = [NoLocals EXCEPT !.t = 0]
    /\ pc' = "simulate_path"
    /\ Enter("simulate_path")
    /\ UNCHANGED << sol, tp, sim, bsv, smv, tiv >>

\* the weights of every period taken from the stationary policy
PathPolicyStationary(t) == sol.a

\* line 406: the policy the weights of period t are computed from
PathPolicy(t) == At(tp.a, t)

\* lines 409-412
PathDlag(t) == IF t = 0 THEN sim.D ELSE At(sim.tp_D, t - 1)

\* one pass of the for loop, lines 403-414
SimPathStep ==
    /\ pc = "simulate_path"
    /\ LET t == loc.t
           i == FindI(PathPolicy(t))
           w == FindW(PathPolicy(t))
           Dnew == simulate(i, w, Transpose(e_trans), PathDlag(t))
       IN  /\ sim' = [sim EXCEPT !.i = i, !.w = w, !.tp_D[t + 1] = Dnew]
           /\ IF t = tp_T - 1
              THEN /\ pc' = "idle"
                   /\ loc' = loc
                   /\ gh' = [gh EXCEPT !.steps = @ + 1, !.order = Append(@, t),
                                       !.status = "returned"]
              ELSE /\ pc' = "simulate_path"
                   /\ loc' = [loc EXCEPT !.t = t + 1]
                   /\ gh' = [gh EXCEPT !.steps = @ + 1, !.order = Append(@, t)]
    /\ UNCHANGED << sol, tp, bsv, smv, tiv >>

Next ==
    \/ \E r \in RSet, warm \in BOOLEAN : SolveSsBegin(r, warm)
    \/ SolveSsIter
    \/ \E tp_r \in RPaths : SolveTpBegin(tp_r)
    \/ SolveTpStep
    \/ \E given \in BOOLEAN : SimSsBegin(given)
    \/ SimSsIter
    \/ SimPathBegin
    \/ SimPathStep

Spec == Init /\ [][Next]_vars

\* A gateway is synchronous code: once entered, its loop keeps running.
\* This is WF_vars(SolveSsIter) /\ WF_vars(SolveTpStep) /\ WF_vars(SimSsIter)
\* /\ WF_vars(SimPathStep) with each ENABLED written out: a loop's step is
\* enabled exactly while the program counter is in that loop, and it always
\* changes the state, since it counts itself in gh.steps.
FairSpec ==
    /\ Spec
    /\ <>[](pc = "solve_ss") => []<><<SolveSsIter>>_vars
    /\ <>[](pc = "solve_tp") => []<><<SolveTpStep>>_vars
    /\ <>[](pc = "simulate_ss") => []<><<SimSsIter>>_vars
    /\ <>[](pc = "simulate_path") => []<><<SimPathStep>>_vars

Returned(name) == pc = "idle" /\ gh.last = name /\ gh.status = "returned"

Raised(name) == pc = "idle" /\ gh.last = name /\ gh.status = "raised"

-----------------------------------------------------------------------------
(* Properties of the gateways *)

Cells == ERange \X ARange

\* C2: after solve_household_ss returns, and for every period after
\* solve_household_tp returns, every cell of the asset policy is >= 0.
C2_AssetsNonNegative ==
    /\ Returned("solve_ss") =>
          \A x \in Cells : At2(sol.a, x[1], x[2]) >= 0
    /\ Returned("solve_tp") =>
          \A t \in TRange : \A x \in Cells : At2(At(tp.a, t), x[1], x[2]) >= 0

\* the asset array last passed to find_i_and_w, while sim.i and sim.w hold
\* what that call stored
WeightsStored ==
    \/ gh.last = "simulate_ss"
    \/ gh.last = "simulate_path" /\ gh.order # << >>

AssetChoice ==
    IF gh.last = "simulate_ss" THEN sol.a
    ELSE At(tp.a, gh.order[Len(gh.order)])

OnGrid(a_) == \E k \in ARange : At(a_grid, k) = a_

\* C3: for every cell of the array passed to find_i_and_w the stored index
\* is in [0, Na-2], the stored weight is in [0, 1] and recombines the two
\* bracketing grid points into the asset choice (to the last place of the
\* arithmetic), and the weight is exactly 0 or 1 on a grid point.
C3_WeightsValid ==
    WeightsStored =>
        \A x \in Cells :
            LET a_ == At2(AssetChoice, x[1], x[2])
                i == At2(sim.i, x[1], x[2])
                w == At2(sim.w, x[1], x[2])
            IN  /\ i \in 0 .. (Na - 2)
                /\ w >= 0 /\ w <= One
                /\ Abs(FMul(w, At(a_grid, i)) + FMul(One - w, At(a_grid, i + 1)) - a_) <= 1
                /\ OnGrid(a_) => w \in { 0, One }

\* the parts of C3 that do not bound the weight
C3_IndexAndRecombination ==
    WeightsStored =>
        \A x \in Cells :
            LET a_ == At2(AssetChoice, x[1], x[2])
                i == At2(sim.i, x[1], x[2])
                w == At2(sim.w, x[1], x[2])
            IN  /\ i \in 0 .. (Na - 2)
                /\ Abs(FMul(w, At(a_grid, i)) + FMul(One - w, At(a_grid, i + 1)) - a_) <= 1
                /\ OnGrid(a_) => w \in { 0, One }

\* what C5 says of one fixed-point loop in every state
LoopBounded(name, cap, tol) ==
    /\ pc = name =>
          /\ gh.steps = loc.it
          /\ loc.it <= cap
          /\ gh.steps > 0 => loc.diff >= tol
    /\ Returned(name) =>
          /\ loc.diff < tol
          /\ gh.steps = loc.it + 1
          /\ gh.steps <= cap + 1
    /\ Raised(name) =>
          /\ loc.diff >= tol
          /\ loc.it = cap + 1
          /\ gh.steps = cap + 1

C5_Bounded ==
    /\ LoopBounded("solve_ss", max_iter_solve, solve_tol)
    /\ LoopBounded("simulate_ss", max_iter_simulate, simulate_tol)
    /\ Returned("solve_ss") => loc.diff = MaxAbsDiff(sol.a, loc.a_old)
    /\ gh.last \in { "solve_ss", "simulate_ss" } => gh.status # "none"

\* C5: both fixed-point loops terminate; each returns the first time the
\* max-abs difference is below its tolerance and raises as soon as the
\* count of non-converged iterations exceeds its cap, so the step is applied
\* at most cap + 1 times and a normal return has passed the test.
C5_LoopsTerminate ==
    /\ []C5_Bounded
    /\ (pc = "solve_ss") ~> (pc = "idle")
    /\ (pc = "simulate_ss") ~> (pc = "idle")

\* the stationary solve has raised after max_iter_solve + 1 steps
C5_Witness ==
    /\ Raised("solve_ss")
    /\ gh.steps = max_iter_solve + 1
    /\ loc.diff >= solve_tol

\* C6: whenever solve_household_ss returns normally, one more
\* time_iteration from sol.Va under the same prices changes the assets by
\* less than solve_tol.
C6_ReturnedIsFixedPoint ==
    Returned("solve_ss") =>
        MaxAbsDiff(time_iteration(loc.r, loc.w, sol.Va, sol.m).a, sol.a) < solve_tol

\* C8: solve_household_tp is one backward pass: periods T-1, ..., 0, each
\* solved once, the last from the stationary sol.Va and every other from
\* the tp_Va[t+1] of the same pass; the stationary arrays are unchanged.
C8_BackwardPass ==
    gh.last = "solve_tp" =>
        /\ sol = gh.pre_sol
        /\ gh.steps = Len(gh.order)
        /\ Len(gh.order) <= tp_T
        /\ Returned("solve_tp") => Len(gh.order) = tp_T
        /\ \A k \in 1 .. Len(gh.order) :
              LET t == gh.order[k]
                  r == At(loc.tp_r, t)
                  w == implied_w(r)
                  m == CashOnHand(r, w)
                  Va_p == IF t = tp_T - 1 THEN sol.Va ELSE At(tp.Va, t + 1)
                  res == time_iteration(r, w, Va_p, m)
              IN  /\ t = tp_T - k
                  /\ At(tp.m, t) = m
                  /\ At(tp.a, t) = res.a
                  /\ At(tp.c, t) = res.c
                  /\ At(tp.Va, t) = res.Va

\* a pass has returned whose periods differ from each other and from the
\* stationary solution
C8_Witness ==
    /\ Returned("solve_tp")
    /\ At(tp.Va, 0) # At(tp.Va, tp_T - 1)
    /\ At(tp.Va, tp_T - 1) # sol.Va
    /\ At(tp.a, 0) # sol.a

\* C9: simulate_path is one forward pass: periods 0, ..., T-1, each written
\* once from the weights of its own policy tp_a[t] and from sim.D (t = 0)
\* or the tp_D[t-1] of the same pass; sim.D is unchanged.
C9_ForwardPass ==
    gh.last = "simulate_path" =>
        /\ sim.D = gh.pre_D
        /\ gh.steps = Len(gh.order)
        /\ Len(gh.order) <= tp_T
        /\ Returned("simulate_path") => Len(gh.order) = tp_T
        /\ gh.order # << >> =>
              /\ sim.i = FindI(At(tp.a, gh.order[Len(gh.order)]))
              /\ sim.w = FindW(At(tp.a, gh.order[Len(gh.order)]))
        /\ \A k \in 1 .. Len(gh.order) :
              LET t == gh.order[k]
                  Dlag == IF t = 0 THEN sim.D ELSE At(sim.tp_D, t - 1)
              IN  /\ t = k - 1
                  /\ At(sim.tp_D, t) =
                        simulate(FindI(At(tp.a, t)), FindW(At(tp.a, t)),
                                 Transpose(e_trans), Dlag)

\* a pass has returned that moved a non-zero distribution with weights
\* that differ between the periods and from the stationary ones
C9_Witness ==
    /\ Returned("simulate_path")
    /\ SumAll(sim.D) > 0
    /\ FindW(At(tp.a, 0)) # FindW(At(tp.a, tp_T - 1))
    /\ FindW(At(tp.a, 0)) # FindW(sol.a)
    /\ At(sim.tp_D, 0) # At(sim.tp_D, tp_T - 1)

\* C10: when simulate_ss returns normally, one more simulate of sim.D with
\* the weights of sol.a changes it by less than simulate_tol; when it
\* raises, sim.D is what it was before the call.
C10_ReturnedIsFixedPoint ==
    /\ Returned("simulate_ss") =>
          /\ sim.i = FindI(sol.a)
          /\ sim.w = FindW(sol.a)
          /\ MaxAbsDiff(simulate(FindI(sol.a), FindW(sol.a), Transpose(e_trans), sim.D),
                        sim.D) < simulate_tol
    /\ Raised("simulate_ss") => sim.D = gh.pre_D

\* the simulation has returned after at least one non-converged step, with
\* a distribution that is not the one stored before the call
C10_Witness ==
    /\ Returned("simulate_ss")
    /\ loc.it >= 1
    /\ sim.D # gh.pre_D
    /\ SumAll(sim.D) > 0
    /\ sol.a # Zeros

-----------------------------------------------------------------------------
(* binary_search on every small grid: specification SpecBS *)

MaxNx == 5

MaxGridVal == 7

\* the strictly increasing grids with 2..MaxNx points in 0..MaxGridVal
RECURSIVE SortedSeq(_)
SortedSeq(s) ==
    IF s = {} THEN << >>
    ELSE LET lo == CHOOSE v \in s : \A u \in s : v <= u
         IN  << lo >> \o SortedSeq(s \ {lo})

BsGrids ==
    { SortedSeq(s) : s \in { u \in SUBSET (0 .. MaxGridVal) :
                               Cardinality(u) >= 2 /\ Cardinality(u) <= MaxNx } }

BsQueries == (0 - 1) .. (MaxGridVal + 1)

BsInit ==
    /\ \E x \in BsGrids, xi \in BsQueries :
          bsv = [pc |-> "call", x |-> x, xi |-> xi, out |-> 0]
    /\ smv = SmIdle
    /\ tiv = TiIdle
    /\ MainIdle

BsCall ==
    /\ bsv.pc = "call"
    /\ bsv' = [bsv EXCEPT !.pc = "done", !.out = binary_search(0, bsv.x, bsv.xi)]
    /\ UNCHANGED << smv, tiv, sol, tp, sim, pc, loc, gh >>

BsNext == BsCall

SpecBS == BsInit /\ [][BsNext]_vars

\* C4: binary_search(0, g, q) is the clamped lower-bound search: 0 when
\* q <= g[0], Nx-2 when q >= g[Nx-2], and otherwise the index i with
\* g[i] <= q < g[i+1] (unique, the grid being strictly increasing).
C4_BinarySearchCorrect ==
    bsv.pc = "done" =>
        LET x == bsv.x
            q == bsv.xi
            Nx == Len(x)
        IN  /\ q <= At(x, 0) => bsv.out = 0
            /\ q >= At(x, Nx - 2) => bsv.out = Nx - 2
            /\ (q > At(x, 0) /\ q < At(x, Nx - 2)) =>
                  /\ bsv.out \in 0 .. (Nx - 2)
                  /\ At(x, bsv.out) <= q
                  /\ q < At(x, bsv.out + 1)
                  /\ \A i \in 0 .. (Nx - 2) :
                        (At(x, i) <= q /\ q < At(x, i + 1)) => i = bsv.out

\* an interior query that equals a grid point has been searched on a grid
\* of at least five points
C4_Witness ==
    /\ bsv.pc = "done"
    /\ Len(bsv.x) >= 5
    /\ bsv.xi > At(bsv.x, 0)
    /\ bsv.xi < At(bsv.x, Len(bsv.x) - 2)
    /\ bsv.xi = At(bsv.x, bsv.out)
    /\ bsv.out = 2

-----------------------------------------------------------------------------
(* simulate on every small weight set: specification SpecSim.  The inputs  *)
(* are multiples of 1/16 (masses), 1/2 (weights) and 1/4 (probabilities),  *)
(* so that no product of the step is rounded.                              *)

SimWeights == { 0, 128, 256 }

SimDs ==
    { << << 48, 48, 32 >>, << 48, 48, 32 >> >>,
      << << 96, 0, 16 >>, << 0, 32, 112 >> >> }

SimTrans == { e_trans, << << 128, 128 >>, << 0, 256 >> >> }

SmInit ==
    /\ \E D \in SimDs, P \in SimTrans,
          i \in [1 .. Ne -> [1 .. Na -> 0 .. (Na - 2)]],
          w \in [1 .. Ne -> [1 .. Na -> SimWeights]] :
          smv = [pc |-> "call", D |-> D, i |-> i, w |-> w,
                 e_trans_T |-> Transpose(P), out |-> Zeros]
    /\ bsv = BsIdle
    /\ tiv = TiIdle
    /\ MainIdle

SmCall ==
    /\ smv.pc = "call"
    /\ smv' = [smv EXCEPT !.pc = "done",
                          !.out = simulate(smv.i, smv.w, smv.e_trans_T, smv.D)]
    /\ UNCHANGED << bsv, tiv, sol, tp, sim, pc, loc, gh >>

SmNext == SmCall

SpecSim == SmInit /\ [][SmNext]_vars

\* C1: one forward step conserves mass: with indices in [0, Na-2], weights
\* in [0, 1] and a row-stochastic transition matrix, the returned
\* distribution is non-negative and sums to the sum of the input.
C1_SimulateConservesMass ==
    smv.pc = "done" =>
        /\ \A e \in ERange : \A a \in ARange : At2(smv.out, e, a) >= 0
        /\ SumAll(smv.out) = SumAll(smv.D)

\* a step has moved mass of two cells of one income state onto the same
\* grid point and mixed the income states
C1_Witness ==
    /\ smv.pc = "done"
    /\ At2(smv.D, 0, 0) > 0 /\ At2(smv.D, 0, 2) > 0
    /\ At2(smv.i, 0, 0) = 0 /\ At2(smv.w, 0, 0) = 128
    /\ At2(smv.i, 0, 2) = 1 /\ At2(smv.w, 0, 2) = 256
    /\ smv.e_trans_T = Transpose(e_trans)
    /\ At2(smv.out, 1, 1) > 0
    /\ smv.out # smv.D

-----------------------------------------------------------------------------
(* time_iteration with the prange loop of line 293 run by one worker per   *)
(* income state, in any interleaving: specification SpecPar.  tiv.Va_p is  *)
(* the continuation array and tiv.Va the output array; when tiv.alias they *)
(* are one array, as in solve_household_ss (line 207).  tiv.late records   *)
(* that a worker started after another one had written its row of Va.      *)

\* the continuation values a caller passes: the initial guess of line 198
\* and the array one step later
ParVa(r) ==
    LET w == implied_w(r)
        m == CashOnHand(r, w)
        Va0 == InitialVa(r, m)
    IN  { Va0, time_iteration(r, w, Va0, m).Va }

ParInit ==
    /\ \E r \in RSet, alias \in BOOLEAN :
          \E Va_p \in ParVa(r) :
             tiv = [pc |-> "call", alias |-> alias, r |-> r, w |-> implied_w(r),
                    m |-> CashOnHand(r, implied_w(r)),
                    Va_p |-> Va_p, Va |-> IF alias THEN Va_p ELSE Zeros,
                    a |-> Zeros, c |-> Zeros,
                    marg_u_plus |-> Zeros,
                    at |-> [e \in 1 .. Ne |-> "start"],
                    in_Va_p |-> Va_p, late |-> FALSE]
    /\ bsv = BsIdle
    /\ smv = SmIdle
    /\ MainIdle

\* line 290, before the loop: marg_u_plus is a new array
TiPostDecision ==
    /\ tiv.pc = "call"
    /\ tiv' = [tiv EXCEPT !.pc = "loop", !.marg_u_plus = MargUPlus(tiv.Va_p)]
    /\ UNCHANGED << bsv, smv, sol, tp, sim, pc, loc, gh >>

\* a post-decision row taken from the continuation array as it is now
PostDecisionLate(i_e) == At(MargUPlus(tiv.Va_p), i_e)

\* marg_u_plus[i_e] of line 296
PostDecisionRow(i_e) == At(tiv.marg_u_plus, i_e)

\* lines 296-300 for worker i_e
TiInterp(i_e) ==
    /\ tiv.pc = "loop"
    /\ tiv.at[i_e + 1] = "start"
    /\ tiv' = [tiv EXCEPT !.at[i_e + 1] = "interp",
                          !.a[i_e + 1] = InterpRow(PostDecisionRow(i_e), At(tiv.m, i_e)),
                          !.late = @ \/ \E e \in 1 .. Ne : tiv.at[e] = "done"]
    /\ UNCHANGED << bsv, smv, sol, tp, sim, pc, loc, gh >>

\* line 301
TiClamp(i_e) ==
    /\ tiv.pc = "loop"
    /\ tiv.at[i_e + 1] = "interp"
    /\ tiv' = [tiv EXCEPT !.at[i_e + 1] = "clamp",
                          !.a[i_e + 1] = ClampRow(At(tiv.a, i_e))]
    /\ UNCHANGED << bsv, smv, sol, tp, sim, pc, loc, gh >>

\* line 302
TiCons(i_e) ==
    /\ tiv.pc = "loop"
    /\ tiv.at[i_e + 1] = "clamp"
    /\ tiv' = [tiv EXCEPT !.at[i_e + 1] = "cons",
                          !.c[i_e + 1] = ConsRow(At(tiv.m, i_e), At(tiv.a, i_e))]
    /\ UNCHANGED << bsv, smv, sol, tp, sim, pc, loc, gh >>

\* line 305: the write of Va[i_e] is a write of Va_p[i_e] when they alias
TiEnvelope(i_e) ==
    /\ tiv.pc = "loop"
    /\ tiv.at[i_e + 1] = "cons"
    /\ LET row == EnvelopeRow(tiv.r, At(tiv.c, i_e))
       IN  tiv' = [tiv EXCEPT !.at[i_e + 1] = "done",
                             !.Va[i_e + 1] = row,
                             !.Va_p[i_e + 1] = IF tiv.alias THEN row ELSE @]
    /\ UNCHANGED << bsv, smv, sol, tp, sim, pc, loc, gh >>

ParNext ==
    \/ TiPostDecision
    \/ \E i_e \in ERange : TiInterp(i_e)
    \/ \E i_e \in ERange : TiClamp(i_e)
    \/ \E i_e \in ERange : TiCons(i_e)
    \/ \E i_e \in ERange : TiEnvelope(i_e)

SpecPar == ParInit /\ [][ParNext]_vars

\* the step run for one income state after the other
ParSequential == time_iteration(tiv.r, tiv.w, tiv.in_Va_p, tiv.m)

\* C7: in every interleaving of the workers, a worker that has not started
\* has left its rows of a, c and Va as they were at the call, and a worker
\* that is done has left in its rows what the step run for one income
\* state after the other leaves there, also when Va_p and Va are one array.
C7_OrderIndependent ==
    tiv.pc = "loop" =>
        \A e \in 1 .. Ne :
            /\ tiv.at[e] = "start" =>
                  /\ tiv.a[e] = Zeros[e]
                  /\ tiv.c[e] = Zeros[e]
                  /\ tiv.Va[e] = IF tiv.alias THEN tiv.in_Va_p[e] ELSE Zeros[e]
            /\ tiv.at[e] = "done" =>
                  /\ tiv.a[e] = ParSequential.a[e]
                  /\ tiv.c[e] = ParSequential.c[e]
                  /\ tiv.Va[e] = ParSequential.Va[e]

\* with Va_p and Va one array, a worker has started after another one had
\* overwritten its row of Va, the expectation taken from the array as it
\* was then differs from marg_u_plus, and all workers are done
C7_Witness ==
    /\ tiv.pc = "loop"
    /\ tiv.alias
    /\ tiv.late
    /\ \A e \in 1 .. Ne : tiv.at[e] = "done"
    /\ tiv.Va # tiv.in_Va_p
    /\ MargUPlus(tiv.Va) # tiv.marg_u_plus

====
